---- MODULE Spec2Model ----
(***************************************************************************)
(* The per-timestep task evaluation pipeline of SafeRLAeroEnv: the rejoin  *)
(* status and reward processors (saferl/aerospace/tasks/rejoin/            *)
(* processors.py) and the docking constraint and reward processors         *)
(* (rejoin/rejoin_rta/environments/docking_env.py).                        *)
(*                                                                         *)
(* Numbers are integers: positions, distances, times and rewards of the    *)
(* program are floats, and every operation modelled here (+, -, *, <, >=)  *)
(* is exact on the small integers used.                                    *)
(***************************************************************************)
EXTENDS Integers, FiniteSets, Sequences, TLC

VARIABLES
    task,        \* which environment the driver runs: "rejoin" or "docking"
    \* ---- rejoin task
    x,           \* wingman position on the lead's axis (env_objs, read-only)
    step_size,   \* step_size argument of the most recent step (0 after reset)
    status,      \* the status mapping built by the most recent pass
    irp,         \* DubinsInRejoinPrev fields
    rt,          \* DubinsRejoinTime fields
    te,          \* DubinsTimeElapsed fields
    fs,          \* DubinsFailureStatus fields
    ss,          \* DubinsSuccessStatus fields
    rr,          \* RejoinRewardProcessor fields
    ft,          \* RejoinFirstTimeRewardProcessor fields
    dc,          \* RejoinDistanceChangeRewardProcessor fields
    hist,        \* history of the episode (observer only, never read by a processor)
    \* ---- docking task
    dock_d,      \* distance(deputy, docking_region) (env_objs, read-only)
    dcp,         \* DockingConstraintProcessor fields
    status_dict, \* status dict returned by DockingConstraintProcessor
    drp,         \* DockingRewardProcessor fields
    reset_distance, \* dock_d at the most recent reset (observer only)
    \* ---- observer of the driver
    earlier_episode, \* a docking episode with steps ended in a reset before this one
    \* ---- construction of an environment or observation processor
    construction, \* the class, its config values, and the outcome of __init__
    \* ---- observation
    obs_processor, \* the observation processor: class, mode, reference
    env_objs,      \* the objects it observes
    obs_result,    \* what _process / generate_observation returned
    \* ---- a pass over a configured list of processors
    status_pass    \* the list, the position in it, the keys produced so far

vars == <<task, x, step_size, status, irp, rt, te, fs, ss, rr, ft, dc, hist,
          dock_d, dcp, status_dict, drp, reset_distance, earlier_episode,
          construction,
          obs_processor, env_objs, obs_result, status_pass>>

rejoin_vars == <<x, step_size, status, irp, rt, te, fs, ss, rr, ft, dc, hist>>

docking_vars == <<dock_d, dcp, status_dict, drp, reset_distance>>

\* what the rejoin and docking pipelines never touch
aux_vars == <<construction, obs_processor, env_objs, obs_result, status_pass>>

-----------------------------------------------------------------------------
(* Configuration of the rejoin task (the config dicts read in __init__).   *)

\* config['timeout'] of DubinsFailureStatus
Timeout == 10
\* config['success_time'] of DubinsSuccessStatus
SuccessTime == 4
\* config['safety_margin']['aircraft'] of DubinsFailureStatus
SafetyMargin == 1
\* radius of the rejoin region
RegionRadius == 1
\* offset of the rejoin region's centre from the lead: the region lies outside
\* the safety margin, with one position between them
RegionOffset == SafetyMargin + RegionRadius + 1
\* config['max_goal_distance'] of DubinsFailureStatus: beyond the region, with
\* two positions between them
MaxGoalDist == RegionOffset + RegionRadius + 3
\* config['reward'] of the three rejoin reward processors
DwellWeight == 2
FirstTimeWeight == 3
DistChangeWeight == 0 - 2
\* the step sizes the pipeline may be driven with
MaxStepSize == 2
\* the dynamics collaborator moves the wingman by at most MaxMove positions
\* in one step
MaxMove == 1

StepSizes == 1..MaxStepSize

Abs(n) == IF n < 0 THEN -n ELSE n

\* wingman positions: 0 is the lead, MaxGoalDist and beyond is out of range
Positions == 0..MaxGoalDist

\* the positions the wingman can be at one step after being at pos
Reachable(pos) == {p \in Positions : Abs(p - pos) <= MaxMove}

\* Python's False as the value of the 'failure' status
NoFailure == "False"

-----------------------------------------------------------------------------
(* Geometry collaborators: distance(a, b) and region.contains(obj).        *)

\* distance(env_objs[wingman], env_objs[lead])
LeadDistance(pos) == pos

\* distance(env_objs[wingman], env_objs[rejoin_region])
RejoinDistance(pos) == Abs(pos - RegionOffset)

\* env_objs[rejoin_region].contains(env_objs[wingman])
contains(pos) == RejoinDistance(pos) <= RegionRadius

-----------------------------------------------------------------------------
(* Status processors.                                                      *)

\* DubinsInRejoin._process
DubinsInRejoin_process(pos) == contains(pos)

\* DubinsInRejoinPrev
\* a variant whose reset forgets the containment status computed at reset
DubinsInRejoinPrev_reset_ForgetCurrent(st) ==
    [in_rejoin_prev |-> FALSE, in_rejoin_current |-> FALSE]

DubinsInRejoinPrev_reset(st) ==
    [in_rejoin_prev |-> FALSE, in_rejoin_current |-> st["in_rejoin"]]

DubinsInRejoinPrev_increment(self, st) ==
    [in_rejoin_prev |-> self.in_rejoin_current,
     in_rejoin_current |-> st["in_rejoin"]]

DubinsInRejoinPrev_process(self) == self.in_rejoin_prev

\* DubinsRejoinTime
DubinsRejoinTime_reset(st) ==
    [rejoin_time |-> 0, in_rejoin |-> st["in_rejoin"]]

\* a variant that pauses the duration outside the region instead of zeroing it
DubinsRejoinTime_increment_Pause(self, size, st) ==
    IF st["in_rejoin"]
    THEN [rejoin_time |-> self.rejoin_time + size, in_rejoin |-> TRUE]
    ELSE [rejoin_time |-> self.rejoin_time, in_rejoin |-> FALSE]

DubinsRejoinTime_increment(self, size, st) ==
    IF st["in_rejoin"]
    THEN [rejoin_time |-> self.rejoin_time + size, in_rejoin |-> TRUE]
    ELSE [rejoin_time |-> 0, in_rejoin |-> FALSE]

DubinsRejoinTime_process(self) == self.rejoin_time

\* DubinsTimeElapsed
DubinsTimeElapsed_reset == [time_elapsed |-> 0]

\* a variant that counts steps instead of adding up the step sizes
DubinsTimeElapsed_increment_CountSteps(self, size) ==
    [time_elapsed |-> self.time_elapsed + 1]

DubinsTimeElapsed_increment(self, size) ==
    [time_elapsed |-> self.time_elapsed + size]

DubinsTimeElapsed_process(self) == self.time_elapsed

\* DubinsLeadDistance._process
DubinsLeadDistance_process(pos) == LeadDistance(pos)

\* DubinsFailureStatus
DubinsFailureStatus_reset(st) ==
    [lead_distance |-> st["lead_distance"], time_elapsed |-> st["time_elapsed"]]

DubinsFailureStatus_increment(st) ==
    [lead_distance |-> st["lead_distance"], time_elapsed |-> st["time_elapsed"]]

\* a variant that tests the timeout before the crash
DubinsFailureStatus_process_TimeoutFirst(self) ==
    IF self.time_elapsed > Timeout THEN "timeout"
    ELSE IF self.lead_distance < SafetyMargin THEN "crash"
    ELSE IF self.lead_distance >= MaxGoalDist THEN "distance"
    ELSE NoFailure

DubinsFailureStatus_process(self) ==
    IF self.lead_distance < SafetyMargin THEN "crash"
    ELSE IF self.time_elapsed > Timeout THEN "timeout"
    ELSE IF self.lead_distance >= MaxGoalDist THEN "distance"
    ELSE NoFailure

\* DubinsSuccessStatus
DubinsSuccessStatus_reset(st) == [rejoin_time |-> st["rejoin_time"]]

DubinsSuccessStatus_increment(st) == [rejoin_time |-> st["rejoin_time"]]

\* a variant that succeeds as soon as the duration reaches success_time
DubinsSuccessStatus_process_AtLeast(self) == self.rejoin_time >= SuccessTime

DubinsSuccessStatus_process(self) == self.rejoin_time > SuccessTime

-----------------------------------------------------------------------------
(* Reward processors.  RewardProcessor is the base class: it owns          *)
(* step_value and total_value, and its step() adds the value _process      *)
(* returns to the running total.                                           *)

RewardProcessor_reset == [step_value |-> 0, total_value |-> 0]

RewardProcessor_step(self, value) ==
    [self EXCEPT !.step_value = value, !.total_value = @ + value]

\* RejoinRewardProcessor
RejoinRewardProcessor_reset ==
    RewardProcessor_reset @@
    [step_size |-> 0, in_rejoin_for_step |-> FALSE, left_rejoin |-> FALSE]

\* a variant that counts the step of entry as a full step in the region
RejoinRewardProcessor_increment_NoPrev(self, size, st) ==
    LET cleared == [self EXCEPT !.left_rejoin = FALSE,
                                !.in_rejoin_for_step = FALSE,
                                !.step_size = size]
    IN  IF st["in_rejoin"]
        THEN [cleared EXCEPT !.in_rejoin_for_step = TRUE]
        ELSE IF st["in_rejoin_prev"]
        THEN [cleared EXCEPT !.left_rejoin = TRUE]
        ELSE cleared

\* a variant that never clears the left_rejoin flag once it is set
RejoinRewardProcessor_increment_StickyLeft(self, size, st) ==
    LET cleared == [self EXCEPT !.in_rejoin_for_step = FALSE,
                                !.step_size = size]
        in_rejoin == st["in_rejoin"]
        in_rejoin_prev == st["in_rejoin_prev"]
    IN  IF in_rejoin /\ in_rejoin_prev
        THEN [cleared EXCEPT !.in_rejoin_for_step = TRUE]
        ELSE IF ~in_rejoin /\ in_rejoin_prev
        THEN [cleared EXCEPT !.left_rejoin = TRUE]
        ELSE cleared

RejoinRewardProcessor_increment(self, size, st) ==
    LET cleared == [self EXCEPT !.left_rejoin = FALSE,
                                !.in_rejoin_for_step = FALSE,
                                !.step_size = size]
        in_rejoin == st["in_rejoin"]
        in_rejoin_prev == st["in_rejoin_prev"]
    IN  IF in_rejoin /\ in_rejoin_prev
        THEN [cleared EXCEPT !.in_rejoin_for_step = TRUE]
        ELSE IF ~in_rejoin /\ in_rejoin_prev
        THEN [cleared EXCEPT !.left_rejoin = TRUE]
        ELSE cleared

\* a variant whose refund is the previous step's value, not the whole total
RejoinRewardProcessor_process_RefundStep(self) ==
    IF self.in_rejoin_for_step THEN DwellWeight * self.step_size
    ELSE IF self.left_rejoin THEN (-1) * self.step_value
    ELSE 0

RejoinRewardProcessor_process(self) ==
    IF self.in_rejoin_for_step THEN DwellWeight * self.step_size
    ELSE IF self.left_rejoin THEN (-1) * self.total_value
    ELSE 0

\* RejoinFirstTimeRewardProcessor
\* a variant that takes an agent inside the region at reset as already rewarded
RejoinFirstTimeRewardProcessor_reset_AppliedIfInside(st) ==
    RewardProcessor_reset @@
    [rejoin_first_time |-> FALSE, rejoin_first_time_applied |-> st["in_rejoin"],
     in_rejoin |-> st["in_rejoin"]]

RejoinFirstTimeRewardProcessor_reset(st) ==
    RewardProcessor_reset @@
    [rejoin_first_time |-> FALSE, rejoin_first_time_applied |-> FALSE,
     in_rejoin |-> st["in_rejoin"]]

\* a variant that forgets to set the applied flag
RejoinFirstTimeRewardProcessor_increment_NoApplied(self, st) ==
    LET marked == IF self.rejoin_first_time
                  THEN [self EXCEPT !.rejoin_first_time = FALSE]
                  ELSE self
    IN  IF st["in_rejoin"] /\ ~marked.rejoin_first_time_applied
        THEN [marked EXCEPT !.rejoin_first_time = TRUE]
        ELSE marked

RejoinFirstTimeRewardProcessor_increment(self, st) ==
    LET marked == IF self.rejoin_first_time
                  THEN [self EXCEPT !.rejoin_first_time_applied = TRUE,
                                    !.rejoin_first_time = FALSE]
                  ELSE self
    IN  IF st["in_rejoin"] /\ ~marked.rejoin_first_time_applied
        THEN [marked EXCEPT !.rejoin_first_time = TRUE]
        ELSE marked

RejoinFirstTimeRewardProcessor_process(self) ==
    IF self.rejoin_first_time THEN FirstTimeWeight ELSE 0

\* RejoinDistanceChangeRewardProcessor
RejoinDistanceChangeRewardProcessor_reset(pos, st) ==
    RewardProcessor_reset @@
    [prev_distance |-> RejoinDistance(pos), cur_distance |-> RejoinDistance(pos),
     in_rejoin |-> st["in_rejoin"]]

\* a variant that never shifts cur_distance into prev_distance
RejoinDistanceChangeRewardProcessor_increment_NoShift(self, pos, st) ==
    [self EXCEPT !.cur_distance = RejoinDistance(pos),
                 !.in_rejoin = st["in_rejoin"]]

\* a variant that leaves both distances alone on a step inside the region
RejoinDistanceChangeRewardProcessor_increment_FreezeInside(self, pos, st) ==
    IF st["in_rejoin"]
    THEN [self EXCEPT !.in_rejoin = st["in_rejoin"]]
    ELSE [self EXCEPT !.prev_distance = self.cur_distance,
                      !.cur_distance = RejoinDistance(pos),
                      !.in_rejoin = st["in_rejoin"]]

RejoinDistanceChangeRewardProcessor_increment(self, pos, st) ==
    [self EXCEPT !.prev_distance = self.cur_distance,
                 !.cur_distance = RejoinDistance(pos),
                 !.in_rejoin = st["in_rejoin"]]

RejoinDistanceChangeRewardProcessor_process(self) ==
    LET distance_change == self.cur_distance - self.prev_distance
    IN  IF ~self.in_rejoin THEN distance_change * DistChangeWeight ELSE 0

-----------------------------------------------------------------------------
(* The rejoin task pipeline.  Status processors run in dependency order,   *)
(* each adding its key to the status mapping; reward processors follow and *)
(* read the finished mapping.  At reset, reset() stands in for _increment. *)

\* the status mapping after each status processor of the pass has run
StatusAfterInRejoin(pos) == ("in_rejoin" :> DubinsInRejoin_process(pos))

StatusAfterInRejoinPrev(pos, irpv) ==
    StatusAfterInRejoin(pos) @@
    ("in_rejoin_prev" :> DubinsInRejoinPrev_process(irpv))

StatusAfterRejoinTime(pos, irpv, rtv) ==
    StatusAfterInRejoinPrev(pos, irpv) @@
    ("rejoin_time" :> DubinsRejoinTime_process(rtv))

StatusAfterTimeElapsed(pos, irpv, rtv, tev) ==
    StatusAfterRejoinTime(pos, irpv, rtv) @@
    ("time_elapsed" :> DubinsTimeElapsed_process(tev))

StatusAfterLeadDistance(pos, irpv, rtv, tev) ==
    StatusAfterTimeElapsed(pos, irpv, rtv, tev) @@
    ("lead_distance" :> DubinsLeadDistance_process(pos))

StatusAfterFailure(pos, irpv, rtv, tev, fsv) ==
    StatusAfterLeadDistance(pos, irpv, rtv, tev) @@
    ("failure" :> DubinsFailureStatus_process(fsv))

StatusAfterSuccess(pos, irpv, rtv, tev, fsv, ssv) ==
    StatusAfterFailure(pos, irpv, rtv, tev, fsv) @@
    ("success" :> DubinsSuccessStatus_process(ssv))

\* the episode is over once the status mapping holds a failure or a success
Terminal(st) == st["failure"] # NoFailure \/ st["success"]

\* what an observer of the episode records after each step
HistReset ==
    [unit_steps |-> TRUE, enter_time |-> 0, seen_in |-> FALSE, first_now |-> FALSE,
     awards |-> 0]

HistStep(h, size, was_in, now_in, now_time, first_time_value) ==
    [\* every step of the episode so far had step size 1, so that the elapsed
     \* time is the number of steps taken
     unit_steps |-> h.unit_steps /\ size = 1,
     \* the elapsed time at the end of the step on which the current stay in
     \* the region began (0: outside, or inside since the reset)
     enter_time |-> IF ~now_in THEN 0
                    ELSE IF ~was_in THEN now_time ELSE h.enter_time,
     \* some step of the episode so far had containment status true
     seen_in |-> h.seen_in \/ now_in,
     \* this step is the first of the episode with containment status true
     first_now |-> now_in /\ ~h.seen_in,
     \* how many steps of the episode returned a non-zero first-time bonus
     awards |-> h.awards + (IF first_time_value # 0 THEN 1 ELSE 0)]

RejoinReset ==
    /\ task = "rejoin"
    /\ \E pos \in Positions :
         /\ x' = pos
         /\ step_size' = 0
         /\ irp' = DubinsInRejoinPrev_reset(StatusAfterInRejoin(pos))
         /\ rt' = DubinsRejoinTime_reset(StatusAfterInRejoinPrev(pos, irp'))
         /\ te' = DubinsTimeElapsed_reset
         /\ fs' = DubinsFailureStatus_reset(StatusAfterLeadDistance(pos, irp', rt', te'))
         /\ ss' = DubinsSuccessStatus_reset(StatusAfterFailure(pos, irp', rt', te', fs'))
         /\ status' = StatusAfterSuccess(pos, irp', rt', te', fs', ss')
         /\ rr' = RejoinRewardProcessor_reset
         /\ ft' = RejoinFirstTimeRewardProcessor_reset(status')
         /\ dc' = RejoinDistanceChangeRewardProcessor_reset(pos, status')
         /\ hist' = HistReset
    /\ UNCHANGED <<task, docking_vars, earlier_episode, aux_vars>>

RejoinStep ==
    /\ task = "rejoin"
    /\ ~Terminal(status)
    /\ \E pos \in Reachable(x), size \in StepSizes :
         /\ x' = pos
         /\ step_size' = size
         /\ irp' = DubinsInRejoinPrev_increment(irp, StatusAfterInRejoin(pos))
         /\ rt' = DubinsRejoinTime_increment(rt, size, StatusAfterInRejoinPrev(pos, irp'))
         /\ te' = DubinsTimeElapsed_increment(te, size)
         /\ fs' = DubinsFailureStatus_increment(
                     StatusAfterLeadDistance(pos, irp', rt', te'))
         /\ ss' = DubinsSuccessStatus_increment(
                     StatusAfterFailure(pos, irp', rt', te', fs'))
         /\ status' = StatusAfterSuccess(pos, irp', rt', te', fs', ss')
         /\ LET rr1 == RejoinRewardProcessor_increment(rr, size, status')
            IN  rr' = RewardProcessor_step(rr1, RejoinRewardProcessor_process(rr1))
         /\ LET ft1 == RejoinFirstTimeRewardProcessor_increment(ft, status')
            IN  ft' = RewardProcessor_step(ft1, RejoinFirstTimeRewardProcessor_process(ft1))
         /\ LET dc1 == RejoinDistanceChangeRewardProcessor_increment(dc, pos, status')
            IN  dc' = RewardProcessor_step(
                         dc1, RejoinDistanceChangeRewardProcessor_process(dc1))
         /\ hist' = HistStep(hist, size, contains(x), contains(pos), te'.time_elapsed,
                             ft'.step_value)
    /\ UNCHANGED <<task, docking_vars, earlier_episode, aux_vars>>

-----------------------------------------------------------------------------
(* The docking environment.                                                *)

\* DockingEnv.timestep
DockTimestep == 1
\* config['timeout'], config['max_goal_distance'] of DockingConstraintProcessor
DockTimeout == 3
DockMaxGoalDistance == 4
\* config['docking_region']['radius']
DockRadius == 1
\* config of DockingRewardProcessor
DockTimeDecay == 0 - 1
DockDistChange == 0 - 2
DockSuccess == 5
DockFailure == [timeout |-> 0 - 3, distance |-> 0 - 4]

DockDistances == 0..DockMaxGoalDistance

\* the distances the deputy can be at one step after being at distance d
DockReachable(d) == {e \in DockDistances : Abs(e - d) <= MaxMove}

\* env_objs['docking_region'].contains(env_objs['deputy'])
dock_contains(d) == d <= DockRadius

DockingConstraintProcessor_reset == [time_elapsed |-> 0, in_docking |-> FALSE]

DockingConstraintProcessor_check_docking_cond(d) == dock_contains(d)

\* a variant that tests the distance bound before the timeout
DockingConstraintProcessor_check_constraints_DistanceFirst(self, d) ==
    LET in_docking == DockingConstraintProcessor_check_docking_cond(d)
        dock_distance == d
        failure == IF dock_distance >= DockMaxGoalDistance THEN "distance"
                   ELSE IF self.time_elapsed > DockTimeout THEN "timeout"
                   ELSE NoFailure
        success == IF in_docking THEN TRUE ELSE FALSE
    IN  [success |-> success, failure |-> failure, in_docking |-> in_docking,
         time_elapsed |-> self.time_elapsed]

DockingConstraintProcessor_check_constraints(self, d) ==
    LET in_docking == DockingConstraintProcessor_check_docking_cond(d)
        dock_distance == d
        failure == IF self.time_elapsed > DockTimeout THEN "timeout"
                   ELSE IF dock_distance >= DockMaxGoalDistance THEN "distance"
                   ELSE NoFailure
        success == IF in_docking THEN TRUE ELSE FALSE
    IN  [success |-> success, failure |-> failure, in_docking |-> in_docking,
         time_elapsed |-> self.time_elapsed]

\* step: the processor after the step, and the status dict it returns
DockingConstraintProcessor_step(self, d, timestep) ==
    LET stepped == [self EXCEPT !.time_elapsed = @ + timestep]
    IN  [self |-> stepped,
         status_dict |-> DockingConstraintProcessor_check_constraints(stepped, d)]

\* a variant whose reset leaves prev_distance at the distance the deputy had
\* before the reset placed it
DockingRewardProcessor_reset_KeepPrev(d) ==
    [prev_distance |-> dock_d, step_reward |-> 0, total_reward |-> 0,
     reward_component_totals |->
        [time |-> 0, distance_change |-> 0, success |-> 0, failure |-> 0]]

DockingRewardProcessor_reset(d) ==
    [prev_distance |-> d, step_reward |-> 0, total_reward |-> 0,
     reward_component_totals |->
        [time |-> 0, distance_change |-> 0, success |-> 0, failure |-> 0]]

\* a variant that tests success before failure
DockingRewardProcessor_gen_reward_SuccessFirst(self, d, sd) ==
    LET time_reward == DockTimeDecay
        cur_distance == d
        dist_change == cur_distance - self.prev_distance
        distance_change_reward == dist_change * DockDistChange
        failure_reward == IF sd.success THEN 0
                          ELSE IF sd.failure # NoFailure THEN DockFailure[sd.failure] ELSE 0
        success_reward == IF sd.success THEN DockSuccess ELSE 0
        reward == time_reward + distance_change_reward + success_reward + failure_reward
        totals == self.reward_component_totals
    IN  [prev_distance |-> cur_distance,
         step_reward |-> reward,
         total_reward |-> self.total_reward + reward,
         reward_component_totals |->
            [time |-> totals.time + time_reward,
             distance_change |-> totals.distance_change + distance_change_reward,
             success |-> totals.success + success_reward,
             failure |-> totals.failure + failure_reward]]

\* a variant that leaves the failure value out of the step reward
DockingRewardProcessor_gen_reward_DropFailure(self, d, sd) ==
    LET time_reward == DockTimeDecay
        cur_distance == d
        dist_change == cur_distance - self.prev_distance
        distance_change_reward == dist_change * DockDistChange
        failure_reward == IF sd.failure # NoFailure THEN DockFailure[sd.failure] ELSE 0
        success_reward == IF sd.failure # NoFailure THEN 0
                          ELSE IF sd.success THEN DockSuccess ELSE 0
        reward == time_reward + distance_change_reward + success_reward
        totals == self.reward_component_totals
    IN  [prev_distance |-> cur_distance,
         step_reward |-> reward,
         total_reward |-> self.total_reward + reward,
         reward_component_totals |->
            [time |-> totals.time + time_reward,
             distance_change |-> totals.distance_change + distance_change_reward,
             success |-> totals.success + success_reward,
             failure |-> totals.failure + failure_reward]]

\* a variant that never moves prev_distance on from the reset distance
DockingRewardProcessor_gen_reward_StalePrev(self, d, sd) ==
    LET time_reward == DockTimeDecay
        cur_distance == d
        dist_change == cur_distance - self.prev_distance
        distance_change_reward == dist_change * DockDistChange
        failure_reward == IF sd.failure # NoFailure THEN DockFailure[sd.failure] ELSE 0
        success_reward == IF sd.failure # NoFailure THEN 0
                          ELSE IF sd.success THEN DockSuccess ELSE 0
        reward == time_reward + distance_change_reward + success_reward + failure_reward
        totals == self.reward_component_totals
    IN  [prev_distance |-> self.prev_distance,
         step_reward |-> reward,
         total_reward |-> self.total_reward + reward,
         reward_component_totals |->
            [time |-> totals.time + time_reward,
             distance_change |-> totals.distance_change + distance_change_reward,
             success |-> totals.success + success_reward,
             failure |-> totals.failure + failure_reward]]

\* a variant that tests success with `if` instead of `elif`
DockingRewardProcessor_gen_reward_BothTerminal(self, d, sd) ==
    LET time_reward == DockTimeDecay
        cur_distance == d
        dist_change == cur_distance - self.prev_distance
        distance_change_reward == dist_change * DockDistChange
        failure_reward == IF sd.failure # NoFailure THEN DockFailure[sd.failure] ELSE 0
        success_reward == IF sd.success THEN DockSuccess ELSE 0
        reward == time_reward + distance_change_reward + success_reward + failure_reward
        totals == self.reward_component_totals
    IN  [prev_distance |-> cur_distance,
         step_reward |-> reward,
         total_reward |-> self.total_reward + reward,
         reward_component_totals |->
            [time |-> totals.time + time_reward,
             distance_change |-> totals.distance_change + distance_change_reward,
             success |-> totals.success + success_reward,
             failure |-> totals.failure + failure_reward]]

DockingRewardProcessor_gen_reward(self, d, sd) ==
    LET time_reward == DockTimeDecay
        cur_distance == d
        dist_change == cur_distance - self.prev_distance
        distance_change_reward == dist_change * DockDistChange
        failure_reward == IF sd.failure # NoFailure THEN DockFailure[sd.failure] ELSE 0
        success_reward == IF sd.failure # NoFailure THEN 0
                          ELSE IF sd.success THEN DockSuccess ELSE 0
        reward == time_reward + distance_change_reward + success_reward + failure_reward
        totals == self.reward_component_totals
    IN  [prev_distance |-> cur_distance,
         step_reward |-> reward,
         total_reward |-> self.total_reward + reward,
         reward_component_totals |->
            [time |-> totals.time + time_reward,
             distance_change |-> totals.distance_change + distance_change_reward,
             success |-> totals.success + success_reward,
             failure |-> totals.failure + failure_reward]]

DockTerminal(sd) == sd.failure # NoFailure \/ sd.success

DockingReset ==
    /\ task = "docking"
    /\ \E d \in DockDistances :
         /\ dock_d' = d
         /\ dcp' = DockingConstraintProcessor_reset
         /\ status_dict' = DockingConstraintProcessor_check_constraints(
                              DockingConstraintProcessor_reset, d)
         /\ drp' = DockingRewardProcessor_reset(d)
         /\ reset_distance' = d
    /\ earlier_episode' = (earlier_episode \/ dcp.time_elapsed > 0)
    /\ UNCHANGED <<task, rejoin_vars, aux_vars>>

DockingStep ==
    /\ task = "docking"
    /\ ~DockTerminal(status_dict)
    /\ \E d \in DockReachable(dock_d) :
         LET cp == DockingConstraintProcessor_step(dcp, d, DockTimestep)
         IN  /\ dock_d' = d
             /\ dcp' = cp.self
             /\ status_dict' = cp.status_dict
             /\ drp' = DockingRewardProcessor_gen_reward(drp, d, cp.status_dict)
             /\ reset_distance' = reset_distance
    /\ UNCHANGED <<task, rejoin_vars, earlier_episode, aux_vars>>

-----------------------------------------------------------------------------
(* Construction.  __init__ reads config['mode'] (and DockingEnv also        *)
(* config['docking_region']['type']); the outcome is the exception raised,  *)
(* or the object with the attributes __init__ has set.                      *)

\* the mode strings a config may hold: the known ones, one in upper case, and
\* one no class knows
Modes == {"2d", "3d", "2D", "rect", "magnorm", "polar"}

RegionTypes == {"circle", "cylinder", "sphere"}

\* str.lower() on the mode strings
lower(mode) == IF mode = "2D" THEN "2d" ELSE mode

\* the object is constructed; observation_space says whether __init__ set
\* the attribute
Constructed(space) ==
    [run |-> TRUE, raised |-> "none", observation_space |-> space]

Raised(exception) ==
    [run |-> TRUE, raised |-> exception, observation_space |-> FALSE]

\* __init__ has not run yet
NotRun == [run |-> FALSE, raised |-> "none", observation_space |-> FALSE]

\* DockingEnv._setup_env_objs
DockingEnv_setup_env_objs(mode, region_type) ==
    IF lower(mode) \notin {"2d", "3d"} THEN Raised("ValueError")
    ELSE IF region_type \notin {"circle", "cylinder"} THEN Raised("ValueError")
    ELSE Constructed(FALSE)

\* DockingObservationProcessor.__init__
DockingObservationProcessor_init(mode) ==
    IF mode = "2d" THEN Constructed(TRUE)
    ELSE IF mode = "3d" THEN Constructed(TRUE)
    ELSE Raised("ValueError")

\* DubinsObservationProcessor.__init__: observation_space and obs_norm_const
\* are set in the two branches of the if/elif, which has no else
DubinsObservationProcessor_init(mode) ==
    IF mode = "rect" THEN Constructed(TRUE)
    ELSE IF mode = "magnorm" THEN Constructed(TRUE)
    ELSE Constructed(FALSE)

\* Dubins3dObservationProcessor.__init__
Dubins3dObservationProcessor_init(mode) ==
    IF mode = "rect" THEN Constructed(TRUE)
    ELSE IF mode = "magnorm" THEN Constructed(TRUE)
    ELSE Constructed(FALSE)

Classes == {"DockingEnv", "DockingObservationProcessor",
            "DubinsObservationProcessor", "Dubins3dObservationProcessor"}

\* the configs a class may be constructed with; only DockingEnv reads the
\* region type
ConstructionInputs ==
    {[cls |-> c, mode |-> m, region_type |-> r, outcome |-> NotRun] :
        c \in Classes, m \in Modes, r \in RegionTypes}

\* nothing is being constructed
NoConstruction ==
    [cls |-> "DockingEnv", mode |-> "2d", region_type |-> "circle",
     outcome |-> NotRun]

Construct ==
    /\ task = "construct"
    /\ ~construction.outcome.run
    /\ construction' =
          [construction EXCEPT !.outcome =
              CASE construction.cls = "DockingEnv" ->
                      DockingEnv_setup_env_objs(construction.mode,
                                                construction.region_type)
                [] construction.cls = "DockingObservationProcessor" ->
                      DockingObservationProcessor_init(construction.mode)
                [] construction.cls = "DubinsObservationProcessor" ->
                      DubinsObservationProcessor_init(construction.mode)
                [] construction.cls = "Dubins3dObservationProcessor" ->
                      Dubins3dObservationProcessor_init(construction.mode)]
    /\ UNCHANGED <<task, rejoin_vars, docking_vars, earlier_episode,
                   obs_processor, env_objs, obs_result, status_pass>>

-----------------------------------------------------------------------------
(* Observation.  A float is held as a fraction num/den with den > 0; the    *)
(* results of a division by zero are held with den = 0: 0/0 is nan, and     *)
(* x/0 is inf with the sign of x.  Vectors are drawn from the multiples of  *)
(* (3, 4, 0), whose norms and differences are exact.  Angles are held in    *)
(* units of pi/4, so that math.pi is 4.                                     *)

Rat(n) == [num |-> n, den |-> 1]

NaN == [num |-> 0, den |-> 0]

Sign(n) == IF n > 0 THEN 1 ELSE IF n < 0 THEN 0 - 1 ELSE 0

\* n / d for floats n and d holding integers (numpy: 0/0 is nan, x/0 is inf)
Divide(n, d) ==
    IF d = 0 THEN [num |-> Sign(n), den |-> 0] ELSE [num |-> n, den |-> d]

\* r / c for a float r and a positive constant c
DivideBy(r, c) == IF r.den = 0 THEN r ELSE [num |-> r.num, den |-> r.den * c]

\* np.clip(r, -1, 1): nan stays nan
clip(r) ==
    IF r.den = 0 THEN (IF r.num = 0 THEN NaN ELSE Rat(r.num))
    ELSE IF r.num > r.den THEN Rat(1)
    ELSE IF r.num < 0 - r.den THEN Rat(0 - 1)
    ELSE r

\* the largest n in lo..hi with n * n <= sq
RECURSIVE SqrtBetween(_, _, _)
SqrtBetween(lo, hi, sq) ==
    IF lo >= hi THEN lo
    ELSE LET mid == (lo + hi + 1) \div 2
         IN  IF mid * mid <= sq THEN SqrtBetween(mid, hi, sq)
             ELSE SqrtBetween(lo, mid - 1, sq)

\* np.linalg.norm(vec)
Norm(vec) == SqrtBetween(0, 46340, vec[1] * vec[1] + vec[2] * vec[2] + vec[3] * vec[3])

\* a variant that takes the sum of the absolute components as the norm
vec2magnorm_SumNorm(vec) ==
    LET norm == Abs(vec[1]) + Abs(vec[2]) + Abs(vec[3])
    IN  <<Rat(norm)>> \o [i \in 1..Len(vec) |-> Divide(vec[i], norm)]

\* DubinsObservationProcessor.vec2magnorm, and the function of the same name
\* and body inside Dubins3dObservationProcessor.generate_observation
vec2magnorm(vec) ==
    LET norm == Norm(vec)
    IN  <<Rat(norm)>> \o [i \in 1..Len(vec) |-> Divide(vec[i], norm)]

\* the vector k * (3, 4, 0)
Vec(k) == <<3 * k, 4 * k, 0>>

Minus(a, b) == [i \in 1..Len(a) |-> a[i] - b[i]]

\* Rotation.apply: the identity, or the inverse of the wingman's orientation,
\* which is a quarter turn about the vertical axis
Rotation_apply(reference, vec) ==
    IF reference = "wingman" THEN <<vec[2], 0 - vec[1], vec[3]>> ELSE vec

\* a vector of floats holding integers
Floats(vec) == [i \in 1..Len(vec) |-> Rat(vec[i])]

\* self.obs_norm_const as set by __init__ (<<>>: the attribute is not set)
DubinsObservationProcessor_obs_norm_const(mode) ==
    IF mode = "rect"
    THEN <<10000, 10000, 10000, 10000, 100, 100, 100, 100>>
    ELSE IF mode = "magnorm"
    THEN <<10000, 1, 1, 10000, 1, 1, 100, 1, 1, 100, 1, 1>>
    ELSE <<>>

Dubins3dObservationProcessor_obs_norm_const(mode) ==
    IF mode = "rect"
    THEN <<10000, 10000, 10000, 10000, 10000, 10000, 100, 100, 100, 100, 100, 100,
           4, 4>>
    ELSE IF mode = "magnorm"
    THEN <<10000, 1, 1, 1, 10000, 1, 1, 1, 100, 1, 1, 1, 100, 1, 1, 1, 4, 4>>
    ELSE <<>>

\* the shape of self.observation_space as set by __init__ (0: the attribute
\* is not set)
DubinsObservationProcessor_observation_space(mode) ==
    IF mode = "rect" THEN 8
    ELSE IF mode = "magnorm" THEN 12
    ELSE 0

Dubins3dObservationProcessor_observation_space(mode) ==
    IF mode = "rect" THEN 14
    ELSE IF mode = "magnorm" THEN 18
    ELSE 0

\* the four vectors both processors observe, in the reference frame
RelativeVectors(self, objs) ==
    <<Rotation_apply(self.reference, Minus(objs.lead_position, objs.wingman_position)),
      Rotation_apply(self.reference,
                     Minus(objs.rejoin_region_position, objs.wingman_position)),
      Rotation_apply(self.reference, objs.wingman_velocity),
      Rotation_apply(self.reference, objs.lead_velocity)>>

\* np.divide(obs, self.obs_norm_const) followed by np.clip(obs, -1, 1): the
\* attribute may be missing, and the shapes may not match
NormalizeAndClip(self, magnorm, obs, obs_norm_const) ==
    IF obs_norm_const = <<>>
    THEN [run |-> TRUE, raised |-> "AttributeError", magnorm |-> magnorm, obs |-> <<>>]
    ELSE IF Len(obs) # Len(obs_norm_const)
    THEN [run |-> TRUE, raised |-> "ValueError", magnorm |-> magnorm, obs |-> <<>>]
    ELSE [run |-> TRUE, raised |-> "none", magnorm |-> magnorm,
          obs |-> [i \in 1..Len(obs) |-> clip(DivideBy(obs[i], obs_norm_const[i]))]]

\* the vectors as concatenated into the observation, and the record of each
\* vec2magnorm call
Encoded(self, vecs) ==
    IF self.mode = "magnorm"
    THEN [i \in 1..Len(vecs) |-> vec2magnorm(vecs[i])]
    ELSE [i \in 1..Len(vecs) |-> Floats(vecs[i])]

MagnormCalls(self, vecs) ==
    IF self.mode = "magnorm"
    THEN [i \in 1..Len(vecs) |-> [vec |-> vecs[i], enc |-> vec2magnorm(vecs[i])]]
    ELSE <<>>

\* DubinsObservationProcessor._process
DubinsObservationProcessor_process(self, objs) ==
    LET vecs == RelativeVectors(self, objs)
        enc == Encoded(self, vecs)
        obs == enc[1] \o enc[2] \o enc[3] \o enc[4]
    IN  NormalizeAndClip(self, MagnormCalls(self, vecs), obs,
                         DubinsObservationProcessor_obs_norm_const(self.mode))

\* Dubins3dObservationProcessor.generate_observation
Dubins3dObservationProcessor_generate_observation(self, objs) ==
    LET vecs == RelativeVectors(self, objs)
        enc == Encoded(self, vecs)
        obs == enc[1] \o enc[2] \o enc[3] \o enc[4]
                  \o <<Rat(objs.roll)>> \o <<Rat(objs.gamma)>>
    IN  NormalizeAndClip(self, MagnormCalls(self, vecs), obs,
                         Dubins3dObservationProcessor_obs_norm_const(self.mode))

\* the observation processors and object states an observation is taken of
ObsProcessors ==
    {[cls |-> c, mode |-> m, reference |-> r] :
        c \in {"DubinsObservationProcessor", "Dubins3dObservationProcessor"},
        m \in {"rect", "magnorm", "polar"},
        r \in {"global", "wingman"}}

EnvObjs ==
    {[wingman_position |-> Vec(w), lead_position |-> Vec(l),
      rejoin_region_position |-> Vec(g), wingman_velocity |-> Vec(wv),
      lead_velocity |-> Vec(lv), roll |-> ro, gamma |-> 1] :
        w \in {0, 1}, l \in {1, 3000}, g \in {0, 1, 3000},
        wv \in {0, 40}, lv \in {0, 1, 40}, ro \in {0 - 6, 1}}

NoObsProcessor ==
    [cls |-> "DubinsObservationProcessor", mode |-> "rect", reference |-> "global"]

NoEnvObjs ==
    [wingman_position |-> Vec(0), lead_position |-> Vec(1),
     rejoin_region_position |-> Vec(1), wingman_velocity |-> Vec(1),
     lead_velocity |-> Vec(1), roll |-> 0, gamma |-> 0]

\* no observation has been taken
NoObs == [run |-> FALSE, raised |-> "none", magnorm |-> <<>>, obs |-> <<>>]

Observe ==
    /\ task = "observe"
    /\ ~obs_result.run
    /\ obs_result' =
          IF obs_processor.cls = "DubinsObservationProcessor"
          THEN DubinsObservationProcessor_process(obs_processor, env_objs)
          ELSE Dubins3dObservationProcessor_generate_observation(obs_processor,
                                                                 env_objs)
    /\ UNCHANGED <<task, rejoin_vars, docking_vars, earlier_episode, construction,
                   obs_processor, env_objs, status_pass>>

-----------------------------------------------------------------------------
(* The order of the processors.  The status processors run in the order of *)
(* the configured list and each adds its key to the status mapping of the  *)
(* pass; the reward processors follow.  A processor is named by the key it *)
(* produces.  Only the keys of the mapping matter here, not the values.    *)

\* the status processors of the rejoin task in dependency order
StatusProcessors ==
    <<"in_rejoin", "in_rejoin_prev", "rejoin_time", "time_elapsed", "lead_distance",
      "failure", "success">>

\* RejoinRewardProcessor, RejoinFirstTimeRewardProcessor,
\* RejoinDistanceChangeRewardProcessor
RewardProcessors == <<"rejoin_reward", "first_time_reward", "distance_change_reward">>

\* the status keys reset reads, in the order of the code
ResetReads(proc) ==
    CASE proc = "in_rejoin_prev" -> <<"in_rejoin">>
      [] proc = "rejoin_time" -> <<"in_rejoin">>
      [] proc = "failure" -> <<"lead_distance", "time_elapsed">>
      [] proc = "success" -> <<"rejoin_time">>
      [] proc = "first_time_reward" -> <<"in_rejoin">>
      [] proc = "distance_change_reward" -> <<"in_rejoin">>
      [] OTHER -> <<>>

\* the status keys _increment reads, in the order of the code
IncrementReads(proc) ==
    CASE proc = "in_rejoin_prev" -> <<"in_rejoin">>
      [] proc = "rejoin_time" -> <<"in_rejoin">>
      [] proc = "failure" -> <<"lead_distance", "time_elapsed">>
      [] proc = "success" -> <<"rejoin_time">>
      [] proc = "rejoin_reward" -> <<"in_rejoin", "in_rejoin_prev">>
      [] proc = "first_time_reward" -> <<"in_rejoin">>
      [] proc = "distance_change_reward" -> <<"in_rejoin">>
      [] OTHER -> <<>>

\* a variant of the subscript that falls back to a default, as status.get(key)
StatusSubscript_Get(keys, key) == IF key \in keys THEN "value" ELSE "default"

\* status[key] on a mapping with the given keys
StatusSubscript(keys, key) == IF key \in keys THEN "value" ELSE "KeyError"

\* the list with the elements at i and j exchanged
Swap(seq, i, j) ==
    [k \in 1..Len(seq) |-> IF k = i THEN seq[j] ELSE IF k = j THEN seq[i] ELSE seq[k]]

\* the list without the element at i
Without(seq, i) == [k \in 1..(Len(seq) - 1) |-> IF k < i THEN seq[k] ELSE seq[k + 1]]

\* the configured lists: the dependency order, with two processors exchanged,
\* or with one processor left out
ProcessorLists ==
    {Swap(StatusProcessors, i, j) : i, j \in 1..Len(StatusProcessors)}
        \cup {Without(StatusProcessors, i) : i \in 1..Len(StatusProcessors)}

\* the start of a pass over a configured list, the reward processors last
PassStart(list) ==
    [list |-> list \o RewardProcessors, phase |-> "reset", idx |-> 1,
     keys |-> {}, raised |-> "none", key |-> "none"]

NoPass == [PassStart(StatusProcessors) EXCEPT !.phase = "done"]

\* the keys the next processor of the pass reads
NextReads(pass) ==
    IF pass.phase = "reset" THEN ResetReads(pass.list[pass.idx])
    ELSE IncrementReads(pass.list[pass.idx])

\* the next processor of the pass runs its reset or its _increment: the first
\* subscript of a missing key raises, otherwise the processor's own key is
\* added to the mapping; the step pass starts from an empty mapping
RunProcessor ==
    /\ task = "order"
    /\ status_pass.phase # "done"
    /\ status_pass.raised = "none"
    /\ LET proc == status_pass.list[status_pass.idx]
           reads == NextReads(status_pass)
           failing == {i \in 1..Len(reads) :
                          StatusSubscript(status_pass.keys, reads[i]) = "KeyError"}
           last == status_pass.idx = Len(status_pass.list)
       IN  status_pass' =
              IF failing # {}
              THEN [status_pass EXCEPT
                      !.raised = "KeyError",
                      !.key = reads[CHOOSE i \in failing : \A j \in failing : i <= j]]
              ELSE [status_pass EXCEPT
                      !.idx = IF last THEN 1 ELSE @ + 1,
                      !.phase = IF ~last THEN @
                                ELSE IF @ = "reset" THEN "step" ELSE "done",
                      !.keys = IF last THEN {}
                               ELSE IF status_pass.idx
                                         <= Len(status_pass.list) - Len(RewardProcessors)
                               THEN @ \cup {proc} ELSE @]
    /\ UNCHANGED <<task, rejoin_vars, docking_vars, earlier_episode, construction,
                   obs_processor, env_objs, obs_result>>

-----------------------------------------------------------------------------
(* The driver: one environment is constructed and reset at some placement  *)
(* of its objects, then stepped, and reset again, any number of times.     *)
(* The environment that is not run stays as constructed.                   *)

Init ==
    /\ task \in {"rejoin", "docking", "construct", "observe", "order"}
    /\ \E pos \in (IF task = "rejoin" THEN Positions ELSE {RegionOffset}) :
         /\ x = pos
         /\ step_size = 0
         /\ irp = DubinsInRejoinPrev_reset(StatusAfterInRejoin(pos))
         /\ rt = DubinsRejoinTime_reset(StatusAfterInRejoinPrev(pos, irp))
         /\ te = DubinsTimeElapsed_reset
         /\ fs = DubinsFailureStatus_reset(StatusAfterLeadDistance(pos, irp, rt, te))
         /\ ss = DubinsSuccessStatus_reset(StatusAfterFailure(pos, irp, rt, te, fs))
         /\ status = StatusAfterSuccess(pos, irp, rt, te, fs, ss)
         /\ rr = RejoinRewardProcessor_reset
         /\ ft = RejoinFirstTimeRewardProcessor_reset(status)
         /\ dc = RejoinDistanceChangeRewardProcessor_reset(pos, status)
         /\ hist = HistReset
    /\ \E d \in (IF task = "docking" THEN DockDistances ELSE {0}) :
         /\ dock_d = d
         /\ dcp = DockingConstraintProcessor_reset
         /\ status_dict = DockingConstraintProcessor_check_constraints(dcp, d)
         /\ drp = DockingRewardProcessor_reset(d)
         /\ reset_distance = d
    /\ earlier_episode = FALSE
    /\ construction \in
          (IF task = "construct" THEN ConstructionInputs ELSE {NoConstruction})
    /\ obs_processor \in (IF task = "observe" THEN ObsProcessors ELSE {NoObsProcessor})
    /\ env_objs \in (IF task = "observe" THEN EnvObjs ELSE {NoEnvObjs})
    /\ obs_result = NoObs
    /\ status_pass \in
          (IF task = "order" THEN {PassStart(l) : l \in ProcessorLists} ELSE {NoPass})

Next ==
    \/ RejoinReset
    \/ RejoinStep
    \/ DockingReset
    \/ DockingStep
    \/ Construct
    \/ Observe
    \/ RunProcessor

Spec == Init /\ [][Next]_vars

-----------------------------------------------------------------------------
(* Properties.                                                             *)

\* the transition is a step of the rejoin pipeline (not a reset): only a step
\* lets time pass
Stepped == te'.time_elapsed > te.time_elapsed

\* the status mapping says the region was exited on the most recent step
Exited == status["in_rejoin_prev"] /\ ~status["in_rejoin"]

\* C1: immediately after a step on which the region is exited (previous-step
\* containment true, current containment false) the running total of
\* RejoinRewardProcessor is exactly 0, whatever had been accumulated.
C1_TotalZeroAfterExit == Exited => rr.total_value = 0

\* an exit that refunds a non-zero accumulated total
C1_Witness == Exited /\ rr.step_value < 0 /\ rr.total_value = 0

\* C2: the step value of RejoinRewardProcessor is weight * step_size on
\* exactly the steps with previous and current containment both true; the
\* step of entry earns nothing.  Hence, while the agent is in the region the
\* running total is weight * (time elapsed since the end of the entry step),
\* and it is 0 while the agent is outside: with unit steps, entering at step
\* 6 and staying through step 10 gives 4 * weight.
C2_DwellOnlyForFullSteps ==
    /\ status["time_elapsed"] > 0 =>
          /\ (rr.step_value = DwellWeight * step_size)
                <=> (status["in_rejoin_prev"] /\ status["in_rejoin"])
          /\ (~status["in_rejoin_prev"] /\ status["in_rejoin"]) => rr.step_value = 0
    /\ rr.total_value =
          IF status["in_rejoin"]
          THEN DwellWeight * (status["time_elapsed"] - hist.enter_time)
          ELSE 0
    /\ (/\ hist.unit_steps
        /\ status["time_elapsed"] = 10
        /\ status["in_rejoin"]
        /\ hist.enter_time = 6) => rr.total_value = 4 * DwellWeight

\* ten unit steps, the region entered on step 6 and not left since
C2_Witness ==
    /\ hist.unit_steps
    /\ status["time_elapsed"] = 10
    /\ status["in_rejoin"]
    /\ hist.enter_time = 6
    /\ rr.total_value = 4 * DwellWeight

\* C3: the refund is emitted only on the exit transition and once per exit:
\* on a step the left_rejoin flag is set exactly when previous containment is
\* true and current containment false, the step value then is minus the
\* running total before the step, a negative step value occurs on no other
\* step, and a step spent outside (previous and current false) has value 0.
C3_RefundOnlyOnExit ==
    [][Stepped =>
         /\ rr'.left_rejoin = (status'["in_rejoin_prev"] /\ ~status'["in_rejoin"])
         /\ rr'.left_rejoin => rr'.step_value = 0 - rr.total_value
         /\ rr'.step_value < 0 => rr'.left_rejoin
         /\ (~status'["in_rejoin_prev"] /\ ~status'["in_rejoin"])
               => rr'.step_value = 0]_vars

\* a second consecutive step outside the region, after a stay in it
C3_Witness ==
    /\ hist.seen_in
    /\ ~status["in_rejoin_prev"]
    /\ ~status["in_rejoin"]
    /\ rr.step_value = 0
    /\ ~rr.left_rejoin

\* C4: within an episode RejoinFirstTimeRewardProcessor returns a non-zero
\* step value on at most one step, and once the bonus has been awarded the
\* applied flag is set by the next step and stays set until the next reset.
C4_FirstTimeAtMostOnce ==
    [][Stepped =>
         /\ hist'.awards <= 1
         /\ (ft.step_value # 0 \/ ft.rejoin_first_time_applied)
               => ft'.rejoin_first_time_applied]_vars

\* the region is re-entered after the bonus was applied, and nothing is awarded
C4_Witness ==
    /\ ft.rejoin_first_time_applied
    /\ ~status["in_rejoin_prev"]
    /\ status["in_rejoin"]
    /\ hist.awards = 1
    /\ ft.step_value = 0

\* C5: RejoinFirstTimeRewardProcessor returns its configured reward on the
\* first step after reset whose containment status is true (also when the
\* agent was inside the region at reset), and 0 on every other step and
\* after reset.
C5_FirstTimeOnFirstStepInside ==
    ft.step_value = IF hist.first_now THEN FirstTimeWeight ELSE 0

\* the agent was inside at reset and the first step awards the bonus
C5_Witness ==
    /\ status["time_elapsed"] = step_size
    /\ step_size > 0
    /\ status["in_rejoin_prev"]
    /\ status["in_rejoin"]
    /\ ft.step_value = FirstTimeWeight

\* the transition is a step of the docking environment (not a reset)
DockStepped == dcp'.time_elapsed = dcp.time_elapsed + DockTimestep

\* the change of the tracked distance over a step, times the weight
RejoinDelta == (RejoinDistance(x') - RejoinDistance(x)) * DistChangeWeight

DockDelta == (dock_d' - dock_d) * DockDistChange

\* C6 as claimed: on every step, whatever the other status values are, the
\* distance-change step value is (distance_t - distance_{t-1}) * weight, for
\* RejoinDistanceChangeRewardProcessor and for the distance_change component
\* of DockingRewardProcessor.
C6_DeltaOnEveryStep ==
    [][/\ Stepped => dc'.step_value = RejoinDelta
       /\ DockStepped =>
             drp'.reward_component_totals.distance_change
               = drp.reward_component_totals.distance_change + DockDelta]_vars

\* C6 as amended: the distance_change component of DockingRewardProcessor is
\* (distance_t - distance_{t-1}) * weight on every step;
\* RejoinDistanceChangeRewardProcessor returns that value on every step whose
\* containment status is false, and 0 on every step whose containment status
\* is true.
C6_DeltaOutsideRegion ==
    [][/\ Stepped =>
             dc'.step_value = IF status'["in_rejoin"] THEN 0 ELSE RejoinDelta
       /\ DockStepped =>
             drp'.reward_component_totals.distance_change
               = drp.reward_component_totals.distance_change + DockDelta]_vars

\* a step outside the region that moved towards it: a reward of positive sign
C6_Witness ==
    /\ status["time_elapsed"] > step_size
    /\ ~status["in_rejoin"]
    /\ dc.cur_distance < dc.prev_distance
    /\ dc.step_value = (dc.cur_distance - dc.prev_distance) * DistChangeWeight
    /\ dc.step_value > 0

\* C7: DubinsFailureStatus returns the first matching code in the order
\* crash (lead distance < safety margin), timeout (time elapsed > timeout),
\* distance (lead distance >= max goal distance), and false when none
\* matches; when several thresholds are violated the earlier code wins.
C7_FailurePriority ==
    LET crash == status["lead_distance"] < SafetyMargin
        timeout == status["time_elapsed"] > Timeout
        far == status["lead_distance"] >= MaxGoalDist
    IN  /\ crash => status["failure"] = "crash"
        /\ (~crash /\ timeout) => status["failure"] = "timeout"
        /\ (~crash /\ ~timeout /\ far) => status["failure"] = "distance"
        /\ (~crash /\ ~timeout /\ ~far) => status["failure"] = NoFailure

\* the crash and the timeout threshold are violated on the same step
C7_Witness ==
    /\ status["lead_distance"] < SafetyMargin
    /\ status["time_elapsed"] > Timeout
    /\ status["failure"] = "crash"

\* C8 as claimed: in every status mapping success and failure are mutually
\* exclusive, for the rejoin statuses and for the status dict of
\* DockingConstraintProcessor.
C8_SuccessFailureExclusive ==
    /\ ~(status["success"] /\ status["failure"] # NoFailure)
    /\ ~(status_dict.success /\ status_dict.failure # NoFailure)

\* C9: DubinsRejoinTime is 0 after reset; on a step with containment true
\* the duration grows by exactly step_size, and on a step with containment
\* false it is exactly 0.
C9_RejoinTimeHardReset ==
    /\ status["rejoin_time"] = 0
    /\ [][status'["rejoin_time"] =
             IF ~Stepped THEN 0
             ELSE IF status'["in_rejoin"]
             THEN status["rejoin_time"] + step_size'
             ELSE 0]_vars

\* the region is left after a stay of several steps and the duration is 0
C9_Witness ==
    /\ Exited
    /\ rr.step_value < 0
    /\ rt.rejoin_time = 0
    /\ status["rejoin_time"] = 0

\* C10: DubinsSuccessStatus is true on a step exactly when the duration
\* status of the same step is strictly greater than success_time.
C10_SuccessIffDurationExceeds ==
    status["success"] <=> (status["rejoin_time"] > SuccessTime)

\* a duration equal to success_time: no success yet
C10_Witness ==
    /\ status["rejoin_time"] = SuccessTime
    /\ status["in_rejoin"]
    /\ ~status["success"]

\* C11: the elapsed-time status is 0 after reset and grows on every step by
\* exactly the size of that step, so that it is the sum of the step sizes
\* since reset, never decreases and is never set back to 0 by a step.  For
\* DubinsTimeElapsed a reset leaves step_size 0 and a step a positive
\* step_size; for DockingConstraintProcessor every step adds the time decay
\* to the 'time' component total, so that total counts the steps taken.
C11_TimeElapsedAccumulates ==
    /\ status["time_elapsed"] = 0
    /\ status_dict.time_elapsed = 0
    /\ [][/\ te'.time_elapsed = status'["time_elapsed"]
          /\ IF step_size' = 0
             THEN status'["time_elapsed"] = 0
             ELSE /\ status'["time_elapsed"] = status["time_elapsed"] + step_size'
                  /\ status'["time_elapsed"] > status["time_elapsed"]
          /\ dcp'.time_elapsed = status_dict'.time_elapsed
          /\ \/ status_dict'.time_elapsed = 0
             \/ status_dict'.time_elapsed = status_dict.time_elapsed + DockTimestep
          /\ drp'.reward_component_totals.time * DockTimestep
                = DockTimeDecay * status_dict'.time_elapsed]_vars

\* steps of different sizes have been added up
C11_Witness ==
    /\ hist.seen_in
    /\ ~hist.unit_steps
    /\ step_size = 1
    /\ status["time_elapsed"] > 4
    /\ te.time_elapsed = status["time_elapsed"]

\* C12: DubinsInRejoinPrev returns at each step the containment status of
\* the step before (at the first step: the one computed at reset); reset
\* sets the previous value to false and the current value to the containment
\* status already computed.
C12_PrevIsLastContainment ==
    /\ ~status["in_rejoin_prev"]
    /\ irp.in_rejoin_current = status["in_rejoin"]
    /\ [][/\ irp'.in_rejoin_current = status'["in_rejoin"]
          /\ status'["in_rejoin_prev"] =
                IF step_size' = 0 THEN FALSE ELSE status["in_rejoin"]]_vars

\* the first step of an episode that began inside the region, leaving it
C12_Witness ==
    /\ status["time_elapsed"] = step_size
    /\ step_size > 0
    /\ status["in_rejoin_prev"]
    /\ ~status["in_rejoin"]

\* C15: the terminal contribution of DockingRewardProcessor.gen_reward is the
\* configured value keyed by the failure code, or else the flat success
\* value; the 'failure' and 'success' component totals hold at most that
\* one value, received on the step whose status is terminal, and are 0 as
\* long as the status has neither a failure nor a success.
C15_TerminalRewardOnce ==
    LET totals == drp.reward_component_totals
        stepped == status_dict.time_elapsed > 0
        failed == status_dict.failure # NoFailure
    IN  /\ totals.failure =
              IF stepped /\ failed THEN DockFailure[status_dict.failure] ELSE 0
        /\ totals.success =
              IF stepped /\ ~failed /\ status_dict.success THEN DockSuccess ELSE 0
        /\ ~DockTerminal(status_dict) => (totals.failure = 0 /\ totals.success = 0)

\* a step that ends the episode with a failure code while the deputy is in
\* the docking region: the failure value is applied, the success value is not
C15_Witness ==
    /\ status_dict.failure = "timeout"
    /\ status_dict.success
    /\ drp.reward_component_totals.failure = DockFailure["timeout"]
    /\ drp.reward_component_totals.success = 0

\* C20: DockingConstraintProcessor.check_constraints returns 'timeout' when
\* time_elapsed > timeout (also when the distance bound is violated),
\* otherwise 'distance' when the distance is >= max_goal_distance, otherwise
\* false; time_elapsed equal to the timeout is no timeout, a distance equal
\* to the bound is a failure.
C20_DockingFailureOrder ==
    LET timeout == status_dict.time_elapsed > DockTimeout
        far == dock_d >= DockMaxGoalDistance
    IN  /\ timeout => status_dict.failure = "timeout"
        /\ (~timeout /\ far) => status_dict.failure = "distance"
        /\ (~timeout /\ ~far) => status_dict.failure = NoFailure
        /\ status_dict.time_elapsed = DockTimeout => status_dict.failure # "timeout"
        /\ (status_dict.time_elapsed <= DockTimeout /\ dock_d = DockMaxGoalDistance)
              => status_dict.failure = "distance"

\* the timeout and the distance bound are violated on the same step
C20_Witness ==
    /\ status_dict.time_elapsed > DockTimeout
    /\ dock_d >= DockMaxGoalDistance
    /\ status_dict.failure = "timeout"

\* C13: after a reset the state of every processor is a function of the
\* current objects and status mapping only: whatever episode came before,
\* the dwell flags, the first-time and applied flags, the previous and
\* current distance, the previous containment, the duration and elapsed-time
\* counters, the totals and the status mapping have the values fixed by the
\* placement alone, so the steps that follow run from the same state.
C13_ResetForgetsEpisode ==
    /\ (task = "rejoin" /\ step_size = 0) =>
          /\ irp = [in_rejoin_prev |-> FALSE, in_rejoin_current |-> contains(x)]
          /\ rt = [rejoin_time |-> 0, in_rejoin |-> contains(x)]
          /\ te = [time_elapsed |-> 0]
          /\ fs = [lead_distance |-> LeadDistance(x), time_elapsed |-> 0]
          /\ ss = [rejoin_time |-> 0]
          /\ rr = [step_value |-> 0, total_value |-> 0, step_size |-> 0,
                   in_rejoin_for_step |-> FALSE, left_rejoin |-> FALSE]
          /\ ft = [step_value |-> 0, total_value |-> 0, rejoin_first_time |-> FALSE,
                   rejoin_first_time_applied |-> FALSE, in_rejoin |-> contains(x)]
          /\ dc = [step_value |-> 0, total_value |-> 0,
                   prev_distance |-> RejoinDistance(x),
                   cur_distance |-> RejoinDistance(x), in_rejoin |-> contains(x)]
          /\ status = [in_rejoin |-> contains(x), in_rejoin_prev |-> FALSE,
                       rejoin_time |-> 0, time_elapsed |-> 0,
                       lead_distance |-> LeadDistance(x),
                       failure |-> IF LeadDistance(x) < SafetyMargin THEN "crash"
                                   ELSE IF LeadDistance(x) >= MaxGoalDist
                                   THEN "distance" ELSE NoFailure,
                       success |-> FALSE]
    /\ (task = "docking" /\ status_dict.time_elapsed = 0) =>
          /\ dcp = [time_elapsed |-> 0, in_docking |-> FALSE]
          /\ drp = [prev_distance |-> dock_d, step_reward |-> 0, total_reward |-> 0,
                    reward_component_totals |->
                       [time |-> 0, distance_change |-> 0, success |-> 0,
                        failure |-> 0]]

\* a reset that followed a docking episode with steps, placing the deputy
\* outside the docking region
C13_Witness ==
    /\ earlier_episode
    /\ task = "docking"
    /\ status_dict.time_elapsed = 0
    /\ ~dock_contains(dock_d)
    /\ drp.total_reward = 0
    /\ drp.prev_distance = dock_d

\* the config names a mode or a region type the class does not know
UnknownConfig ==
    CASE construction.cls = "DockingEnv" ->
            \/ lower(construction.mode) \notin {"2d", "3d"}
            \/ construction.region_type \notin {"circle", "cylinder"}
      [] construction.cls = "DockingObservationProcessor" ->
            construction.mode \notin {"2d", "3d"}
      [] OTHER -> construction.mode \notin {"rect", "magnorm"}

\* C16 as claimed: every construction with an unknown mode string or an
\* invalid region type raises an error at construction time, for DockingEnv,
\* DockingObservationProcessor, DubinsObservationProcessor and
\* Dubins3dObservationProcessor.
C16_UnknownConfigRaises ==
    (construction.outcome.run /\ UnknownConfig)
        => construction.outcome.raised # "none"

\* C17 as claimed: every component of a returned observation lies in
\* [-1, 1], in 'rect' and in 'magnorm' mode, also when a relative position
\* or a velocity is the zero vector.
C17_ObservationInUnitBox ==
    (obs_result.run /\ obs_result.raised = "none") =>
        \A i \in 1..Len(obs_result.obs) :
            LET c == obs_result.obs[i]
            IN  c.den > 0 /\ 0 - c.den <= c.num /\ c.num <= c.den

\* C19: for every nonzero vector v, vec2magnorm(v) = [m, u...] has m the
\* magnitude of v, u of unit length, and m * u = v.
C19_MagnormRoundTrip ==
    \A i \in 1..Len(obs_result.magnorm) :
        LET v == obs_result.magnorm[i].vec
            e == obs_result.magnorm[i].enc
            m == e[1].num
        IN  v # Vec(0) =>
              /\ Len(e) = Len(v) + 1
              /\ e[1].den = 1
              /\ m > 0
              /\ m * m = v[1] * v[1] + v[2] * v[2] + v[3] * v[3]
              /\ \A j \in 1..Len(v) :
                    /\ e[j + 1].den > 0
                    /\ m * e[j + 1].num = v[j] * e[j + 1].den
              /\ e[2].num * e[2].num + e[3].num * e[3].num + e[4].num * e[4].num
                    = e[2].den * e[2].den

\* the encoding of a vector of magnitude 200 with two non-zero components
C19_Witness ==
    /\ obs_result.run
    /\ Len(obs_result.magnorm) = 4
    /\ obs_result.magnorm[3].vec = <<160, 0 - 120, 0>>
    /\ obs_result.magnorm[3].enc[1] = Rat(200)

\* C18: a processor whose reset or _increment reads a status key that no
\* earlier processor of the same pass has produced raises a fatal error: the
\* pass stops there and nothing is added to the mapping.
C18_MissingKeyIsFatal ==
    [][(/\ task = "order"
        /\ status_pass.phase # "done"
        /\ \E i \in 1..Len(NextReads(status_pass)) :
              NextReads(status_pass)[i] \notin status_pass.keys)
          => /\ status_pass'.raised = "KeyError"
             /\ status_pass'.key \notin status_pass.keys
             /\ status_pass'.keys = status_pass.keys
             /\ status_pass'.idx = status_pass.idx]_vars

\* the previous-containment processor is not configured: the resets pass, and
\* the first _increment of RejoinRewardProcessor raises
C18_Witness ==
    /\ status_pass.raised = "KeyError"
    /\ status_pass.phase = "step"
    /\ status_pass.list[status_pass.idx] = "rejoin_reward"
    /\ status_pass.key = "in_rejoin_prev"

\* the terminal values the status of a step calls for
DockFailureValue(sd) == IF sd.failure # NoFailure THEN DockFailure[sd.failure] ELSE 0

DockSuccessValue(sd) ==
    IF sd.failure = NoFailure /\ sd.success THEN DockSuccess ELSE 0

\* C21: in DockingRewardProcessor.gen_reward failure overrides success: a
\* step whose status has a failure code and success true adds the failure
\* value of that code and no success value, and no step adds to both the
\* success and the failure component.
C21_FailureOverridesSuccess ==
    [][DockStepped =>
         LET failure_added == drp'.reward_component_totals.failure
                                 - drp.reward_component_totals.failure
             success_added == drp'.reward_component_totals.success
                                 - drp.reward_component_totals.success
         IN  /\ (status_dict'.failure # NoFailure /\ status_dict'.success) =>
                   /\ failure_added = DockFailure[status_dict'.failure]
                   /\ success_added = 0
             /\ ~(failure_added # 0 /\ success_added # 0)
             /\ (status_dict'.failure = NoFailure /\ status_dict'.success) =>
                   success_added = DockSuccess]_vars

\* the deputy moves into the docking region on the step that times out: the
\* step reward holds the timeout value and no success value
C21_Witness ==
    /\ status_dict.failure = "timeout"
    /\ status_dict.in_docking
    /\ status_dict.success
    /\ drp.step_reward = DockTimeDecay - DockDistChange + DockFailure["timeout"]

\* C22: after reset and any number of gen_reward calls, total_reward is the
\* sum of the step rewards returned and the sum of the entries of
\* reward_component_totals, and step_reward is the reward of the most recent
\* call (its time, distance-change and terminal parts).
C22_TotalIsSumOfSteps ==
    /\ drp.total_reward = 0
    /\ drp.step_reward = 0
    /\ [][/\ drp'.total_reward =
                drp'.reward_component_totals.time
                   + drp'.reward_component_totals.distance_change
                   + drp'.reward_component_totals.success
                   + drp'.reward_component_totals.failure
          /\ IF DockStepped
             THEN /\ drp'.total_reward = drp.total_reward + drp'.step_reward
                  /\ drp'.step_reward =
                        DockTimeDecay + DockDelta + DockFailureValue(status_dict')
                           + DockSuccessValue(status_dict')
             ELSE drp'.total_reward = 0 /\ drp'.step_reward = 0]_vars

\* several step rewards, the last one with a failure value, have been added up
C22_Witness ==
    /\ status_dict.time_elapsed >= 3
    /\ status_dict.failure = "distance"
    /\ drp.step_reward = DockTimeDecay + DockDistChange + DockFailure["distance"]
    /\ drp.total_reward < drp.step_reward

\* C23: the distance-change reward of DockingRewardProcessor telescopes:
\* after reset and any number of gen_reward calls the 'distance_change'
\* component total is (current distance - distance at reset) * dist_change,
\* whatever the path in between.
C23_DistanceChangeTelescopes ==
    /\ drp.reward_component_totals.distance_change
          = (dock_d - reset_distance) * DockDistChange
    /\ drp.prev_distance = dock_d

\* the deputy is back at its reset distance after a step that moved it: the
\* changes of the steps cancel
C23_Witness ==
    /\ status_dict.time_elapsed >= 2
    /\ dock_d = reset_distance
    /\ ~DockTerminal(status_dict)
    /\ drp.step_reward # DockTimeDecay
    /\ drp.reward_component_totals.distance_change = 0

\* C24: RejoinDistanceChangeRewardProcessor returns step value 0 on every
\* step whose containment status is true, whatever the distance change was,
\* and still shifts its previous/current distance on that step; on the first
\* step after leaving the region the step value is the distance change of
\* that single step times the weight.
C24_ShiftsWhileInside ==
    [][Stepped =>
          /\ dc'.prev_distance = RejoinDistance(x)
          /\ dc'.cur_distance = RejoinDistance(x')
          /\ status'["in_rejoin"] => dc'.step_value = 0
          /\ (status["in_rejoin"] /\ ~status'["in_rejoin"]) =>
                dc'.step_value
                  = (dc'.cur_distance - dc.cur_distance) * DistChangeWeight]_vars

\* the wingman earned a distance-change reward outside the region, entered
\* it on a step of value 0, and has now left it: the previous distance is the
\* one taken inside the region and the step value covers the last step only
C24_Witness ==
    /\ Exited
    /\ status["time_elapsed"] > step_size
    /\ dc.prev_distance <= RegionRadius
    /\ dc.cur_distance > RegionRadius
    /\ dc.step_value = (dc.cur_distance - dc.prev_distance) * DistChangeWeight
    /\ dc.step_value # 0
    /\ dc.total_value # dc.step_value

\* the length the processor of the observation declares, in its observation
\* space and in its normalization constants
DeclaredShape ==
    IF obs_processor.cls = "DubinsObservationProcessor"
    THEN DubinsObservationProcessor_observation_space(obs_processor.mode)
    ELSE Dubins3dObservationProcessor_observation_space(obs_processor.mode)

DeclaredNormConst ==
    IF obs_processor.cls = "DubinsObservationProcessor"
    THEN DubinsObservationProcessor_obs_norm_const(obs_processor.mode)
    ELSE Dubins3dObservationProcessor_obs_norm_const(obs_processor.mode)

\* C25 as claimed: for every input state with 3-component relative position
\* and velocity vectors, the observation has the length declared by the
\* processor's observation space and normalization constants: 8 ('rect') and
\* 12 ('magnorm') for DubinsObservationProcessor, 14 and 18 for
\* Dubins3dObservationProcessor.
C25_ObservationLength ==
    (obs_result.run /\ obs_processor.mode \in {"rect", "magnorm"}) =>
        /\ obs_result.raised = "none"
        /\ Len(obs_result.obs) = DeclaredShape
        /\ Len(DeclaredNormConst) = DeclaredShape
        /\ DeclaredShape
             = CASE obs_processor.cls = "DubinsObservationProcessor"
                      /\ obs_processor.mode = "rect" -> 8
                 [] obs_processor.cls = "DubinsObservationProcessor"
                      /\ obs_processor.mode = "magnorm" -> 12
                 [] obs_processor.cls = "Dubins3dObservationProcessor"
                      /\ obs_processor.mode = "rect" -> 14
                 [] OTHER -> 18

\* the part of C25 that the code meets: Dubins3dObservationProcessor returns
\* 14 components in 'rect' mode and 18 in 'magnorm' mode
C25_Length3d ==
    (/\ obs_result.run
     /\ obs_processor.cls = "Dubins3dObservationProcessor"
     /\ obs_processor.mode \in {"rect", "magnorm"}) =>
        /\ obs_result.raised = "none"
        /\ Len(obs_result.obs) = DeclaredShape

\* the part of C25 that the code does not meet: DubinsObservationProcessor
\* never returns an observation of the declared length
C25_Length2dNeverMet ==
    (/\ obs_result.run
     /\ obs_processor.cls = "DubinsObservationProcessor"
     /\ obs_processor.mode \in {"rect", "magnorm"}) =>
        obs_result.raised = "ValueError"

====
